---- MODULE Spec2Model ----
(***************************************************************************)
(* The two Ansible modules of ansible-role-luadist, library/luadist.py and *)
(* library/luadist_wrapper.py, as one state machine.  A behaviour is a     *)
(* sequence of up to MaxRuns invocations of run_module() with one request  *)
(* against one target directory.  The directory (is the LuaDist binary     *)
(* there, which dists are deployed) is the only state that survives an     *)
(* invocation.  Python strings are sequences of one-character strings, so  *)
(* that concatenation is \o and "a in b" is a real substring test.         *)
(***************************************************************************)
EXTENDS Integers, Sequences, FiniteSets, TLC

VARIABLES
    variant,      \* which module file is invoked: "luadist" or "wrapper"
    check_mode,   \* whether Ansible invokes the module in check mode
    params,       \* module.params: the request
    binPresent,   \* target directory: LuaDist/bin/luadist exists
    installed,    \* target directory: names of the deployed dists
    pc,           \* position of the current invocation in run_module()
    run,          \* number of the current invocation
    path,         \* run_module local
    packages,     \* run_module local
    allow_dists,  \* run_module local
    dists_repo,   \* run_module local
    result,       \* run_module local (state_changed in luadist.py)
    all_present,  \* run_module local
    idx,          \* position of the "for package in packages" loop
    output,       \* what exit_json / fail_json printed
    log,          \* the subprocesses run so far (module.run_command calls)
    history       \* outcome of the finished invocations

vars == <<variant, check_mode, params, binPresent, installed, pc, run, path,
          packages, allow_dists, dists_repo, result, all_present, idx, output,
          log, history>>

\* Number of successive invocations of the module with the same request.
MaxRuns == 2

\* Longest requested package list.
MaxPkgs == 2

(***************************************************************************)
(* String literals of the two source files.                                *)
(***************************************************************************)

\* _install_packages: the Python string './LuaDist/bin/luadist install '
INSTALL_PREFIX ==
    <<".","/","L","u","a","D","i","s","t","/","b","i","n","/","l","u","a","d","i","s","t"," ","i","n","s","t","a","l","l"," ">>

\* _is_present: the Python string './LuaDist/bin/luadist list '
LIST_PREFIX ==
    <<".","/","L","u","a","D","i","s","t","/","b","i","n","/","l","u","a","d","i","s","t"," ","l","i","s","t"," ">>

\* _install_packages: the Python string ' -source='
SOURCE_FLAG ==
    <<" ","-","s","o","u","r","c","e","=">>

\* _install_packages: the Python string ' -binary='
BINARY_FLAG ==
    <<" ","-","b","i","n","a","r","y","=">>

\* _install_packages: the Python string 'true'
TRUE_STR ==
    <<"t","r","u","e">>

\* _install_packages: the Python string 'false'
FALSE_STR ==
    <<"f","a","l","s","e">>

\* _install_packages of luadist_wrapper.py: the Python string ' -repos="'
REPOS_FLAG ==
    <<" ","-","r","e","p","o","s","=","\"">>

\* _install_packages of luadist.py: the Python string ' --repo="'
REPO_FLAG ==
    <<" ","-","-","r","e","p","o","=","\"">>

\* _install_packages: the Python string '"'
QUOTE ==
    <<"\"">>

\* _install_packages: the Python string ' '
SPACE ==
    <<" ">>

\* _install_packages of luadist_wrapper.py: the Python string 'No packages to install'
NOOP_PHRASE ==
    <<"N","o"," ","p","a","c","k","a","g","e","s"," ","t","o"," ","i","n","s","t","a","l","l">>

\* _install_packages of luadist.py: the Python string 'Installation succesful'
SUCCESS_PHRASE ==
    <<"I","n","s","t","a","l","l","a","t","i","o","n"," ","s","u","c","c","e","s","f","u","l">>

\* _setup_luadist of luadist_wrapper.py: the Python string 'curl -fksSL https://tinyurl.com/luadist | bash'
WRAPPER_BOOTSTRAP_CMD ==
    <<"c","u","r","l"," ","-","f","k","s","S","L"," ","h","t","t","p","s",":","/","/","t","i","n","y","u","r","l",".","c","o","m","/","l","u","a","d","i","s","t"," ","|"," ","b","a","s","h">>

\* _setup_luadist of luadist.py: the Python string 'echo "$(curl -fksSL https://tinyurl.com/luadist)" | bash'
LUADIST_BOOTSTRAP_CMD ==
    <<"e","c","h","o"," ","\"","$","(","c","u","r","l"," ","-","f","k","s","S","L"," ","h","t","t","p","s",":","/","/","t","i","n","y","u","r","l",".","c","o","m","/","l","u","a","d","i","s","t",")","\""," ","|"," ","b","a","s","h">>

\* default of dists_repo: the Python string 'git://github.com/LuaDist/Repository.git'
DEFAULT_REPO ==
    <<"g","i","t",":","/","/","g","i","t","h","u","b",".","c","o","m","/","L","u","a","D","i","s","t","/","R","e","p","o","s","i","t","o","r","y",".","g","i","t">>

\* dists_repo of the third example: the Python string 'git://example.org/myluarepo.git'
CUSTOM_REPO ==
    <<"g","i","t",":","/","/","e","x","a","m","p","l","e",".","o","r","g","/","m","y","l","u","a","r","e","p","o",".","g","i","t">>

\* a target directory: the Python string '/env'
ENV_PATH ==
    <<"/","e","n","v">>

\* a package name: the Python string 'md5'
MD5 ==
    <<"m","d","5">>

\* a package name that contains another one: the Python string 'lmd5'
LMD5 ==
    <<"l","m","d","5">>

\* key of an argument-spec dict: the Python string 'type'
TYPE_KEY ==
    <<"t","y","p","e">>

\* key of an argument-spec dict: the Python string 'elements'
ELEMENTS_KEY ==
    <<"e","l","e","m","e","n","t","s">>

\* an output of luadist install: the Python string 'Installation successful\n'
OK_OUT ==
    <<"I","n","s","t","a","l","l","a","t","i","o","n"," ","s","u","c","c","e","s","s","f","u","l","\n">>

\* an output of luadist install: the Python string 'No packages to install.\n'
NOOP_OUT ==
    <<"N","o"," ","p","a","c","k","a","g","e","s"," ","t","o"," ","i","n","s","t","a","l","l",".","\n">>

\* an output of luadist install: the Python string 'Error: cannot install\n'
ERR_OUT ==
    <<"E","r","r","o","r",":"," ","c","a","n","n","o","t"," ","i","n","s","t","a","l","l","\n">>

\* line end of the list output: the Python string '\n'
NEWLINE ==
    <<"\n">>

(***************************************************************************)
(* Python values.  Every value carries its type, so that the operations    *)
(* that raise TypeError on a wrong type can be modelled.                   *)
(***************************************************************************)

PyStr(s) == [t |-> "str", v |-> s]

PyList(l) == [t |-> "list", v |-> l]

\* A dict: v holds its keys, in insertion order (all that iteration sees).
PyDict(keys) == [t |-> "dict", v |-> keys]

PyNone == [t |-> "none", v |-> <<>>]

\* A local variable that has not been assigned yet.
Unset == [t |-> "unset", v |-> <<>>]

\* "a == b" for a Python value a and a string literal b.
PyEq(a, s) == a.t = "str" /\ a.v = s

\* "sub in s" for two Python strings.
IsSubstring(sub, s) ==
    \E i \in 0..(Len(s) - Len(sub)) : SubSeq(s, i + 1, i + Len(sub)) = sub

\* Whether "for x in val" can iterate; iterating None raises TypeError.
Iterable(val) == val.t \in {"list", "dict"}

\* The items "for x in val" visits: list elements, or the keys of a dict.
Items(val) == val.v

(***************************************************************************)
(* Requests and target directories.                                        *)
(***************************************************************************)

Variants == {"luadist", "wrapper"}

PkgNames == {MD5, LMD5}

\* A fixed order of the package names, for the list output.
PkgOrder == <<MD5, LMD5>>

PkgLists == UNION {[1..n -> PkgNames] : n \in 0..MaxPkgs}

\* module.params after argument parsing.  An omitted "name" (it has no
\* default) is None; allow_dists and dists_repo have defaults.
Requests ==
    [path        : {PyStr(ENV_PATH)},
     name        : {PyNone} \cup {PyList(l) : l \in PkgLists},
     allow_dists : {PyStr("all"), PyStr("binary"), PyStr("source")},
     dists_repo  : {PyStr(DEFAULT_REPO), PyStr(CUSTOM_REPO)}]

\* The argument spec of luadist.py: each entry is itself a dict.
module_args ==
    [path        |-> PyDict(<<>>),
     name        |-> PyDict(<<TYPE_KEY, ELEMENTS_KEY>>),
     allow_dists |-> PyDict(<<>>),
     dists_repo  |-> PyDict(<<>>)]

(***************************************************************************)
(* The external LuaDist tool.                                              *)
(***************************************************************************)

RECURSIVE ListFrom(_, _, _)
ListFrom(i, inst, query) ==
    IF i > Len(PkgOrder) THEN <<>>
    ELSE (IF PkgOrder[i] \in inst /\ IsSubstring(query, PkgOrder[i])
          THEN PkgOrder[i] \o NEWLINE ELSE <<>>)
         \o ListFrom(i + 1, inst, query)

\* stdout of "luadist list <query>": the deployed dists whose name contains
\* the query, one per line.
ListOutput(inst, query) == ListFrom(1, inst, query)

\* What the install subprocess may print.
InstallOuts == {OK_OUT, NOOP_OUT, ERR_OUT}

\* The target directory after "luadist install": with exit code 0 every
\* requested dist is deployed, unless the tool says there was nothing to
\* install; any other exit code leaves the directory as it was.
AfterInstall(inst, rc, out, names) ==
    IF rc = 0 /\ ~IsSubstring(NOOP_PHRASE, out)
    THEN inst \cup ({names[i] : i \in DOMAIN names} \cap PkgNames)
    ELSE inst

(***************************************************************************)
(* Helpers of the two modules.                                             *)
(***************************************************************************)

\* supports_check_mode as passed to AnsibleModule(); luadist_wrapper.py
\* does not pass it, and it defaults to False.
SupportsCheckMode(v) == v = "luadist"

\* AnsibleModule.__init__ ends the module with exit_json(skipped=True, ...)
\* when check mode is requested of a module that does not support it.
ConstructorSkips(v, cm) == cm /\ ~SupportsCheckMode(v)

\* As ExplicitCheckExit, had the check-mode test been left out.
ExplicitCheckExitNever(v, cm) == FALSE

\* luadist.py: "if module.check_mode: module.exit_json(changed=False)".
ExplicitCheckExit(v, cm) == v = "luadist" /\ cm

\* luadist.py reads its locals from module_args (the argument spec),
\* luadist_wrapper.py from module.params.
ReadArgs(v, p) == IF v = "luadist" THEN module_args ELSE p

\* "result = dict(changed=False, cmd="", env_path=path, name=packages)" or,
\* in luadist.py, "state_changed = False".
InitialResult(v, p, pk) ==
    IF v = "wrapper"
    THEN [changed |-> FALSE, cmd |-> <<>>, env_path |-> p, name |-> pk]
    ELSE [changed |-> FALSE]

\* As MarkChanged, had the assignment been left out.
MarkChangedNot(r) == r

\* result["changed"] = True / state_changed = True
MarkChanged(r) == [r EXCEPT !.changed = TRUE]

\* os.chdir(path) of luadist.py raises TypeError unless path is a string;
\* os.path.join of luadist_wrapper.py is only ever given a string.
PresenceRaises(v, p) == v = "luadist" /\ p.t # "str"

\* _luadist_is_present: os.path.exists of LuaDist/bin/luadist under path.
_luadist_is_present(bin) == bin

\* _setup_luadist of luadist_wrapper.py checks the binary again and fails;
\* that of luadist.py checks nothing.
SetupFatal(v, bin) == v = "wrapper" /\ ~_luadist_is_present(bin)

BootstrapCmd(v) ==
    IF v = "wrapper" THEN WRAPPER_BOOTSTRAP_CMD ELSE LUADIST_BOOTSTRAP_CMD

\* _is_present: the command for one package.
ListCmd(pkgname) == LIST_PREFIX \o pkgname

\* As ListFatal, with the exit code ignored as luadist.py ignores it.
ListFatalNever(v, rc) == FALSE

\* _is_present of luadist_wrapper.py fails on a non-zero exit code; that of
\* luadist.py ignores the exit code.
ListFatal(v, rc) == v = "wrapper" /\ rc # 0

\* _is_present: "return pkgname in out".
pkgname_in_out(pkgname, out) == IsSubstring(pkgname, out)

RECURSIVE AddPackages(_, _, _)
\* "for package in packages: cmd += package + " "", from the i-th item on.
AddPackages(cmd, items, i) ==
    IF i > Len(items) THEN cmd
    ELSE AddPackages(cmd \o (items[i] \o SPACE), items, i + 1)

\* As source_allowed, testing for the wrong policy.
source_allowed_wrong_policy(allowed_dists) ==
    IF PyEq(allowed_dists, "source") THEN FALSE_STR ELSE TRUE_STR

source_allowed(allowed_dists) ==
    IF PyEq(allowed_dists, "binary") THEN FALSE_STR ELSE TRUE_STR

binary_allowed(allowed_dists) ==
    IF PyEq(allowed_dists, "binary") THEN TRUE_STR
    ELSE IF PyEq(allowed_dists, "source") THEN FALSE_STR ELSE TRUE_STR

\* The flags part: " -source=" + source_allowed + " -binary=" + binary_allowed
DistFlags(allowed_dists) ==
    SOURCE_FLAG \o source_allowed(allowed_dists)
        \o BINARY_FLAG \o binary_allowed(allowed_dists)

RepoFlag(v) == IF v = "wrapper" THEN REPOS_FLAG ELSE REPO_FLAG

\* _install_packages: the command string, for a string repo.
BuildInstallCmd(v, pkgs, allowed_dists, repo) ==
    (AddPackages(INSTALL_PREFIX, Items(pkgs), 1) \o DistFlags(allowed_dists))
        \o (RepoFlag(v) \o repo.v \o QUOTE)

\* str + dict raises TypeError when the repo is not a string.
InstallRaises(repo) == repo.t # "str"

\* As InstallFatal, without the test for the no-op phrase.
InstallFatalOnAnyError(v, rc, out) ==
    IF v = "wrapper" THEN rc # 0 ELSE ~IsSubstring(SUCCESS_PHRASE, out)

\* _install_packages: when the install is reported as failed.
InstallFatal(v, rc, out) ==
    IF v = "wrapper"
    THEN rc # 0 /\ ~IsSubstring(NOOP_PHRASE, out)
    ELSE ~IsSubstring(SUCCESS_PHRASE, out)

\* The keyword arguments of the final exit_json.
ExitArgs(v, r) == IF v = "wrapper" THEN r ELSE [changed |-> r.changed]

LogEntry(kind, cmd, arg, rc, out) ==
    [run |-> run, kind |-> kind, cmd |-> cmd, arg |-> arg, rc |-> rc, out |-> out]

NoOutput == [none |-> TRUE]

Terminal == {"exited", "skipped", "failed", "crashed"}

(***************************************************************************)
(* The state machine.                                                      *)
(***************************************************************************)

Init ==
    /\ variant \in Variants
    /\ check_mode \in BOOLEAN
    /\ params \in Requests
    /\ binPresent \in BOOLEAN
    /\ installed \in SUBSET PkgNames
    /\ (~binPresent => installed = {})
    /\ pc = "start"
    /\ run = 1
    /\ path = Unset
    /\ packages = Unset
    /\ allow_dists = Unset
    /\ dists_repo = Unset
    /\ result = [changed |-> FALSE]
    /\ all_present = TRUE
    /\ idx = 1
    /\ output = NoOutput
    /\ log = <<>>
    /\ history = <<>>

\* run_module up to the presence check: the AnsibleModule constructor, the
\* reading of the arguments, the check-mode exit and the initial result.
ConstructModule ==
    /\ pc = "start"
    /\ IF ConstructorSkips(variant, check_mode)
       THEN /\ output' = [skipped |-> TRUE]
            /\ pc' = "skipped"
            /\ UNCHANGED <<path, packages, allow_dists, dists_repo, result>>
       ELSE /\ path' = ReadArgs(variant, params).path
            /\ packages' = ReadArgs(variant, params).name
            /\ allow_dists' = ReadArgs(variant, params).allow_dists
            /\ dists_repo' = ReadArgs(variant, params).dists_repo
            /\ IF ExplicitCheckExit(variant, check_mode)
               THEN /\ output' = [changed |-> FALSE]
                    /\ pc' = "exited"
                    /\ UNCHANGED result
               ELSE /\ result' = InitialResult(variant, path', packages')
                    /\ pc' = "presence"
                    /\ UNCHANGED output
    /\ UNCHANGED <<variant, check_mode, params, binPresent, installed, run,
                   all_present, idx, log, history>>

\* "if not _luadist_is_present(path): changed = True", before the setup call.
PresenceCheck ==
    /\ pc = "presence"
    /\ IF PresenceRaises(variant, path)
       THEN /\ pc' = "crashed"
            /\ UNCHANGED <<result, all_present, idx>>
       ELSE IF _luadist_is_present(binPresent)
       THEN /\ pc' = "audit"
            /\ all_present' = TRUE
            /\ idx' = 1
            /\ UNCHANGED result
       ELSE /\ pc' = "bootstrap"
            /\ result' = MarkChanged(result)
            /\ UNCHANGED <<all_present, idx>>
    /\ UNCHANGED <<variant, check_mode, params, binPresent, installed, run,
                   path, packages, allow_dists, dists_repo, output, log, history>>

\* _setup_luadist: the bootstrap subprocess, which may or may not leave the
\* binary behind, whatever its exit code.
_setup_luadist ==
    /\ pc = "bootstrap"
    /\ \E rc \in {0, 1}, created \in BOOLEAN :
          /\ binPresent' = created
          /\ log' = Append(log, LogEntry("bootstrap", BootstrapCmd(variant), <<>>, rc, <<>>))
          /\ IF SetupFatal(variant, binPresent')
             THEN /\ pc' = "failed"
                  /\ output' = [failed |-> TRUE, rc |-> rc]
                  /\ UNCHANGED <<all_present, idx>>
             ELSE /\ pc' = "audit"
                  /\ all_present' = TRUE
                  /\ idx' = 1
                  /\ UNCHANGED output
    /\ UNCHANGED <<variant, check_mode, params, installed, run, path, packages,
                   allow_dists, dists_repo, result, history>>

\* One pass of "for package in packages": the loop ends, or _is_present runs
\* the list subprocess for the next package.
_is_present ==
    /\ pc = "audit"
    /\ IF ~Iterable(packages)
       THEN /\ pc' = "crashed"
            /\ UNCHANGED <<all_present, idx, output, log>>
       ELSE IF idx > Len(Items(packages))
       THEN /\ pc' = "report"
            /\ UNCHANGED <<all_present, idx, output, log>>
       ELSE \E rc \in {0, 1} :
            LET pkg == Items(packages)[idx]
                out == IF rc = 0 /\ binPresent THEN ListOutput(installed, pkg) ELSE <<>>
            IN  /\ log' = Append(log, LogEntry("list", ListCmd(pkg), pkg, rc, out))
                /\ IF ListFatal(variant, rc)
                   THEN /\ pc' = "failed"
                        /\ output' = [failed |-> TRUE, rc |-> rc]
                        /\ UNCHANGED <<all_present, idx>>
                   ELSE IF pkgname_in_out(pkg, out)
                   THEN /\ idx' = idx + 1
                        /\ UNCHANGED <<pc, all_present, output>>
                   ELSE /\ all_present' = FALSE
                        /\ pc' = "install"
                        /\ UNCHANGED <<idx, output>>
    /\ UNCHANGED <<variant, check_mode, params, binPresent, installed, run,
                   path, packages, allow_dists, dists_repo, result, history>>

\* "if not all_present": changed = True, then _install_packages.
_install_packages ==
    /\ pc = "install"
    /\ IF InstallRaises(dists_repo)
       THEN /\ pc' = "crashed"
            /\ result' = MarkChanged(result)
            /\ UNCHANGED <<installed, output, log>>
       ELSE \E rc \in {0, 1}, out \in InstallOuts :
            LET cmd == BuildInstallCmd(variant, packages, allow_dists, dists_repo)
            IN  /\ log' = Append(log, LogEntry("install", cmd, <<>>, rc, out))
                /\ installed' = AfterInstall(installed, rc, out, Items(packages))
                /\ IF InstallFatal(variant, rc, out)
                   THEN /\ pc' = "failed"
                        /\ output' = [failed |-> TRUE, rc |-> rc]
                        /\ result' = MarkChanged(result)
                   ELSE /\ pc' = "report"
                        /\ result' = IF variant = "wrapper"
                                     THEN [MarkChanged(result) EXCEPT !.cmd = cmd]
                                     ELSE MarkChanged(result)
                        /\ UNCHANGED output
    /\ UNCHANGED <<variant, check_mode, params, binPresent, run, path, packages,
                   allow_dists, dists_repo, all_present, idx, history>>

\* The final module.exit_json.
ExitJson ==
    /\ pc = "report"
    /\ output' = ExitArgs(variant, result)
    /\ pc' = "exited"
    /\ UNCHANGED <<variant, check_mode, params, binPresent, installed, run,
                   path, packages, allow_dists, dists_repo, result, all_present,
                   idx, log, history>>

\* The module is invoked again with the same request; nothing but the
\* target directory is carried over.
NextRun ==
    /\ pc \in Terminal
    /\ run < MaxRuns
    /\ history' = Append(history, [outcome |-> pc, output |-> output])
    /\ run' = run + 1
    /\ pc' = "start"
    /\ path' = Unset
    /\ packages' = Unset
    /\ allow_dists' = Unset
    /\ dists_repo' = Unset
    /\ result' = [changed |-> FALSE]
    /\ all_present' = TRUE
    /\ idx' = 1
    /\ output' = NoOutput
    /\ UNCHANGED <<variant, check_mode, params, binPresent, installed, log>>

Next ==
    \/ ConstructModule
    \/ PresenceCheck
    \/ _setup_luadist
    \/ _is_present
    \/ _install_packages
    \/ ExitJson
    \/ NextRun

Spec == Init /\ [][Next]_vars

(***************************************************************************)
(* Vocabulary of the properties.                                           *)
(***************************************************************************)

\* The positions of the log that belong to invocation r.
EntriesOf(r) == {i \in DOMAIN log : log[i].run = r}

KindOf(r, kind) == {i \in EntriesOf(r) : log[i].kind = kind}

BootstrapRan(r) == KindOf(r, "bootstrap") # {}

InstallRan(r) == KindOf(r, "install") # {}

\* How invocation r ended (or where it is, for the current one).
OutcomeOf(r) == IF r = run THEN pc ELSE history[r].outcome

\* The changed flag Ansible reports for a module output: the "changed" key,
\* and False when the module printed none.
ReportedChanged(o) == IF "changed" \in DOMAIN o THEN o.changed ELSE FALSE

\* The requested package list; an omitted one counts as empty.
Requested == IF params.name.t = "list" THEN params.name.v ELSE <<>>

\* The positions that delimit words: the spaces, and both ends.
Delimiters(s) == {i \in 1..Len(s) : s[i] = " "} \cup {0, Len(s) + 1}

\* The words of s as pairs of delimiters with at least one character and no
\* delimiter between them.
WordBounds(s) ==
    LET D == Delimiters(s)
    IN  {w \in D \X D :
            /\ w[1] + 1 < w[2]
            /\ \A d \in D : ~(w[1] < d /\ d < w[2])}

\* The words of a command line: its maximal runs of non-space characters.
Tokens(s) ==
    LET W == WordBounds(s)
    IN  [k \in 1..Cardinality(W) |->
            LET w == CHOOSE u \in W : Cardinality({x \in W : x[1] < u[1]}) = k - 1
            IN  SubSeq(s, w[1] + 1, w[2] - 1)]

\* A list entry whose output does not contain the package asked for.
FoundMissing(i) ==
    /\ log[i].kind = "list"
    /\ log[i].rc = 0
    /\ ~IsSubstring(log[i].arg, log[i].out)

\* The no-op case of the install: non-zero exit code, phrase in stdout.
NoOpInstall(i) ==
    /\ log[i].kind = "install"
    /\ log[i].rc # 0
    /\ IsSubstring(NOOP_PHRASE, log[i].out)

\* The dist-policy mapping, as the flags should read.
ExpectedFlags(policy) ==
    CASE policy = "all"    -> <<Tail(SOURCE_FLAG) \o TRUE_STR,  Tail(BINARY_FLAG) \o TRUE_STR>>
      [] policy = "binary" -> <<Tail(SOURCE_FLAG) \o FALSE_STR, Tail(BINARY_FLAG) \o TRUE_STR>>
      [] policy = "source" -> <<Tail(SOURCE_FLAG) \o TRUE_STR,  Tail(BINARY_FLAG) \o FALSE_STR>>

RECURSIVE Joined(_)
\* Every entry followed by one space.
Joined(names) ==
    IF Len(names) = 0 THEN <<>> ELSE (Head(names) \o SPACE) \o Joined(Tail(names))

\* The install command, word by word and character by character, with one
\* word per entry of the request.
WellFormedInstallCmd(cmd) ==
    /\ Tokens(cmd) = (<<SubSeq(INSTALL_PREFIX, 1, 21), SubSeq(INSTALL_PREFIX, 23, 29)>>
                         \o Requested)
                     \o (ExpectedFlags(params.allow_dists.v)
                         \o <<(Tail(REPOS_FLAG) \o params.dists_repo.v) \o QUOTE>>)
    /\ cmd = (INSTALL_PREFIX \o Joined(Requested))
             \o (SPACE \o ExpectedFlags(params.allow_dists.v)[1])
             \o (SPACE \o ExpectedFlags(params.allow_dists.v)[2])
             \o (REPOS_FLAG \o params.dists_repo.v \o QUOTE)

\* How many words of cmd are the name.
Occurrences(name, cmd) ==
    Cardinality({k \in DOMAIN Tokens(cmd) : Tokens(cmd)[k] = name})

(***************************************************************************)
(* The claims.                                                             *)
(***************************************************************************)

\* C1: luadist_wrapper, run twice in succession with the same request and
\* both runs ending in success, reports changed=false on the second run.
C1_SecondRunUnchanged ==
    (/\ variant = "wrapper"
     /\ run = 2
     /\ pc = "exited"
     /\ history[1].outcome = "exited")
        => (output.changed = FALSE)

\* C2: in both variants a check-mode request runs neither the bootstrap nor
\* the install subprocess, and the run ends reporting changed=false.
C2_CheckModeInert ==
    check_mode =>
        /\ \A i \in DOMAIN log : log[i].kind \notin {"bootstrap", "install"}
        /\ pc \in {"start", "exited", "skipped"}
        /\ (pc \in Terminal => ReportedChanged(output) = FALSE)

\* C2 happens: a check-mode run of luadist.py has ended on a directory with
\* no LuaDist and with packages requested.
C2_Witness ==
    /\ variant = "luadist"
    /\ check_mode
    /\ pc = "exited"
    /\ ~binPresent
    /\ Len(Requested) > 0

\* C3: in luadist_wrapper, when the install exits non-zero with the no-op
\* phrase in stdout, the run succeeds and reports changed=true exactly when
\* the bootstrap ran in that run.
C3_NoOpInstallReflectsBootstrap ==
    (/\ variant = "wrapper"
     /\ pc \in Terminal
     /\ \E i \in KindOf(run, "install") : NoOpInstall(i))
        => (pc = "exited" /\ output.changed = BootstrapRan(run))

\* C4: in luadist_wrapper, a request with no packages (an empty list, or
\* only a path) on a directory that already has the binary succeeds with
\* changed=false, runs no list or install subprocess and has cmd = "".
C4_NoPackagesNoChange ==
    (/\ variant = "wrapper"
     /\ ~check_mode
     /\ Len(Requested) = 0
     /\ pc \in Terminal
     /\ ~BootstrapRan(run))
        => /\ pc = "exited"
           /\ output.changed = FALSE
           /\ output.cmd = <<>>
           /\ KindOf(run, "list") = {}
           /\ KindOf(run, "install") = {}

\* C5 as stated: the install command of luadist_wrapper holds every
\* requested package name exactly once, in request order, then the two
\* flags of the dist-policy mapping, then the quoted repository URL.
C5_EachNameExactlyOnce ==
    \A i \in DOMAIN log :
        (variant = "wrapper" /\ log[i].kind = "install") =>
            /\ WellFormedInstallCmd(log[i].cmd)
            /\ \A k \in DOMAIN Requested : Occurrences(Requested[k], log[i].cmd) = 1

\* C5 as amended: the install command of luadist_wrapper is the luadist
\* binary and "install", then one word per entry of the request in request
\* order (a name requested twice appears twice), then the two flags of the
\* dist-policy mapping, then the quoted repository URL.
C5_OneWordPerEntry ==
    \A i \in DOMAIN log :
        (variant = "wrapper" /\ log[i].kind = "install") =>
            WellFormedInstallCmd(log[i].cmd)

\* C5 happens: an install of two different packages, binary dists only,
\* from the custom repository.
C5_Witness ==
    /\ variant = "wrapper"
    /\ InstallRan(run)
    /\ Requested = <<LMD5, MD5>>
    /\ params.allow_dists.v = "binary"
    /\ params.dists_repo.v = CUSTOM_REPO

\* C6: a successful run of luadist_wrapper reports changed = (bootstrap ran
\* or install ran), cmd = the install command that was run ("" if none),
\* and env_path and name as requested.
C6_ResultReflectsRun ==
    (variant = "wrapper" /\ pc = "exited") =>
        /\ output.changed = (BootstrapRan(run) \/ InstallRan(run))
        /\ Cardinality(KindOf(run, "install")) <= 1
        /\ \A i \in KindOf(run, "install") : output.cmd = log[i].cmd
        /\ (~InstallRan(run) => output.cmd = <<>>)
        /\ output.env_path = params.path
        /\ output.name = params.name

\* C6 happens: a successful run in which the install ran and the bootstrap
\* did not.
C6_Witness ==
    /\ variant = "wrapper"
    /\ pc = "exited"
    /\ InstallRan(run)
    /\ ~BootstrapRan(run)
    /\ Len(output.cmd) > 0

\* C7: in both variants, a run that finds the binary absent runs the
\* bootstrap exactly once; if the binary is still absent the run fails and
\* the bootstrap is the last subprocess of the run.
C7_BootstrapOnceThenVerify ==
    (/\ ~check_mode
     /\ pc \in Terminal
     /\ (BootstrapRan(run) \/ ~binPresent))
        => /\ Cardinality(KindOf(run, "bootstrap")) = 1
           /\ (~binPresent =>
                 /\ pc = "failed"
                 /\ \A i \in EntriesOf(run) : log[i].kind = "bootstrap")

\* C8: in luadist_wrapper the run fails at the install step exactly when the
\* install exits non-zero and its stdout lacks the no-op phrase.
C8_InstallFatalIff ==
    \A i \in DOMAIN log :
        (variant = "wrapper" /\ log[i].kind = "install") =>
            /\ (OutcomeOf(log[i].run) = "failed")
                   <=> (log[i].rc # 0 /\ ~IsSubstring(NOOP_PHRASE, log[i].out))
            /\ OutcomeOf(log[i].run) \in {"failed", "report", "exited"}

\* C8 happens: one run failed at an install without the phrase, the next
\* got past a non-zero install with the phrase.
C8_Witness ==
    /\ variant = "wrapper"
    /\ run = 2
    /\ history[1].outcome = "failed"
    /\ \E i \in KindOf(1, "install") : log[i].rc # 0
    /\ pc = "exited"
    /\ \E i \in KindOf(2, "install") : NoOpInstall(i)

\* C9: in luadist_wrapper a list subprocess with a non-zero exit code is the
\* last subprocess of its run, and the run fails.
C9_ListFailureIsFatal ==
    \A i \in DOMAIN log :
        (variant = "wrapper" /\ log[i].kind = "list" /\ log[i].rc # 0) =>
            /\ OutcomeOf(log[i].run) = "failed"
            /\ \A j \in EntriesOf(log[i].run) : j <= i

\* C9 happens: the list for the second package of a run failed.
C9_Witness ==
    /\ variant = "wrapper"
    /\ pc = "failed"
    /\ Cardinality(KindOf(run, "list")) = 2
    /\ \E i \in KindOf(run, "list") : log[i].rc # 0

\* C10: in both variants the list subprocesses of a run are for the
\* requested packages in request order, come after the presence check and
\* the bootstrap, and end at the first package missing from the list output:
\* a finished run that had the binary has listed every requested package up
\* to the first one that was missing (or whose list failed); the install
\* runs iff one was missing, at most once, with the full list.
C10_AuditOrderAndShortCircuit ==
    /\ (pc \in {"start", "presence", "bootstrap"} => KindOf(run, "list") = {})
    /\ ((pc \in Terminal /\ ~check_mode /\ binPresent) =>
            \/ Cardinality(KindOf(run, "list")) = Len(Requested)
            \/ \E i \in KindOf(run, "list") : FoundMissing(i) \/ log[i].rc # 0)
    /\ \A r \in 1..run :
        LET lists == KindOf(r, "list")
            installs == KindOf(r, "install")
        IN  /\ Cardinality(lists) <= Len(Requested)
            /\ \A i \in lists :
                  /\ log[i].arg = Requested[Cardinality({j \in lists : j <= i})]
                  /\ \A j \in KindOf(r, "bootstrap") : j < i
                  /\ (FoundMissing(i) => \A j \in lists : j <= i)
            /\ Cardinality(installs) <= 1
            /\ \A i \in installs :
                  /\ \E j \in lists : j < i /\ FoundMissing(j)
                  /\ \A j \in EntriesOf(r) : j <= i
                  /\ SubSeq(Tokens(log[i].cmd), 3, 2 + Len(Requested)) = Requested
            /\ ((\E j \in lists : FoundMissing(j)) =>
                    (installs # {} \/ (r = run /\ pc = "install")))

====
